---- MODULE Spec2Model ----
(***************************************************************************)
(* A model of scripts/build.py, the cmake project builder: one program     *)
(* run is Setup, then Run (create settings | load, construct Cmake, then   *)
(* cleanup | configure, build), then main's print of the response or of    *)
(* the caught exception.  The file system, the settings file, the          *)
(* process's working directory, the OLDPWD environment variable and the    *)
(* exit code of the external tool are the environment.                     *)
(*                                                                         *)
(* A path is the sequence of its components: "." is <<".">>, "" is <<>>,   *)
(* "proj/build" is <<"proj", "build">>, "/w/proj" is <<"/", "w", "proj">>. *)
(* A string that the program splits is the sequence of its characters.     *)
(***************************************************************************)
EXTENDS Integers, Sequences, FiniteSets, TLC

VARIABLES
    pc,           \* position of the run in main / ProjectBuilder.Run
    args,         \* ProjectBuilder.__arguments (the argparse namespace)
    controls,     \* ProjectBuilder.__controls
    response,     \* ProjectBuilder.response
    values,       \* BuildSetting.values
    cmake,        \* the Cmake object's __projectHome and __buildDirectory
    exc,          \* the exception propagating to main, <<>> when none
    cwd,          \* the process's working directory (absolute path)
    oldpwd,       \* the environment variable OLDPWD: {} when unset, else {path}
    settingsFile, \* the content of buildsettings.json
    dirs,         \* the directories of the file system (absolute paths)
    files,        \* the regular files of the file system (absolute paths)
    stdout,       \* the lines printed by this run
    invocations,  \* the commands this run passed to the external tool
    called        \* the methods this run has called, in order

vars == <<pc, args, controls, response, values, cmake, exc, cwd, oldpwd,
          settingsFile, dirs, files, stdout, invocations, called>>

\* ---------------------------------------------------------------- constants

MY_NAME == "C Project Builder"

FILE_NAME == "buildsettings.json"

PROJECT_HOME == "ProjectHome"

BUILD_DIR == "BuildDirectory"

CMAKE == "cmake"

\* The number of files a build directory holds at most.
MaxFiles == 2

\* -------------------------------------------------------------------- paths

IsAbs(p) == Len(p) > 0 /\ p[1] = "/"

\* os.path.join(a, b)
Join(a, b) == IF IsAbs(b) THEN b ELSE a \o b

\* os.path.dirname(p)
Dirname(p) ==
    IF Len(p) <= 1
    THEN (IF IsAbs(p) THEN p ELSE <<>>)
    ELSE SubSeq(p, 1, Len(p) - 1)

IsDot(c) == c = "."

NotDot(c) == ~IsDot(c)

\* The absolute path that p names in working directory d.
Resolve(d, p) == SelectSeq(IF IsAbs(p) THEN p ELSE d \o p, NotDot)

IsPrefix(p, q) == Len(p) <= Len(q) /\ SubSeq(q, 1, Len(p)) = p

\* os.path.exists(p) in working directory d
Exists(d, p) == p # <<>> /\ (Resolve(d, p) \in dirs \/ Resolve(d, p) \in files)

IsDir(d, p) == p # <<>> /\ Resolve(d, p) \in dirs

\* os.chdir(p) in working directory d
Chdir(d, p) ==
    IF IsDir(d, p)
    THEN [cwd |-> Resolve(d, p), exc |-> <<>>]
    ELSE [cwd |-> d,
          exc |-> IF Exists(d, p) THEN <<"NotADirectoryError", p>>
                                  ELSE <<"FileNotFoundError", p>>]

\* -------------------------------------------------------------- environment

StartDirs == {<<"/", "w">>, <<"/", "old">>}

OldPwds == {{}, {<<"/", "old">>}, {<<"/", "w">>}}

BaseDirs == {<<"/">>, <<"/", "w">>, <<"/", "old">>, <<"/", "w", "proj">>}

BuildDirs == {<<"/", "w", "build">>, <<"/", "w", "proj", "build">>}

FileNames == <<"CMakeCache.txt", "Makefile", "app.o", "app">>

HomeValues == {<<".">>, <<"proj">>, <<"/", "w", "proj">>, <<"gone">>}

BuildValues == {<<"build">>, <<"sub", "build">>}

\* A JSON object is the set of its <<key, value>> pairs.
JsonObjects ==
    {{}}
    \cup {{<<PROJECT_HOME, h>>} : h \in HomeValues}
    \cup {{<<BUILD_DIR, b>>} : b \in BuildValues}
    \cup {{<<PROJECT_HOME, h>>, <<BUILD_DIR, b>>} : h \in HomeValues, b \in BuildValues}

SettingsFiles ==
    {[kind |-> "absent", obj |-> {}], [kind |-> "invalid", obj |-> {}]}
    \cup {[kind |-> "json", obj |-> o] : o \in JsonObjects}

HasKey(o, k) == \E kv \in o : kv[1] = k

Get(o, k) == (CHOOSE kv \in o : kv[1] = k)[2]

\* The subdirectory of a build directory d that holds n files.
SubDirsIn(d, n) == IF n >= 1 THEN {d \o <<"CMakeFiles">>} ELSE {}

\* The n files of a build directory d: one in its subdirectory, the others
\* the first of FileNames.
FilesIn(d, n) ==
    {d \o <<FileNames[i]>> : i \in 1..(n - 1)}
    \cup (IF n >= 1 THEN {d \o <<"CMakeFiles", "cmake.check_cache">>} ELSE {})

ExitCodes == {0, 1}

\* The positional argument and the options that take a value or only shape
\* the build command.
Modifiers ==
    {[target |-> "all", type |-> "", verbose |-> FALSE, cmake_args |-> <<>>],
     [target |-> "app", type |-> "Debug", verbose |-> TRUE,
      cmake_args |-> <<"-", "j", ",", "4">>],
     [target |-> "all", type |-> "", verbose |-> FALSE, cmake_args |-> <<"-", "k">>]}

Arguments ==
    {[target |-> m.target, configure |-> c, build |-> b, verbose |-> m.verbose,
      type |-> m.type, clean |-> cl, cmake_args |-> m.cmake_args,
      create_settings |-> cs, debug |-> dbg] :
        m \in Modifiers, c \in BOOLEAN, b \in BOOLEAN, cl \in BOOLEAN,
        cs \in BOOLEAN, dbg \in BOOLEAN}

\* ----------------------------------------------------------- the program

\* argparse's defaults: the namespace before parse_args has run
DefaultArguments ==
    [target |-> "all", configure |-> FALSE, build |-> FALSE, verbose |-> FALSE,
     type |-> "", clean |-> FALSE, cmake_args |-> <<>>,
     create_settings |-> FALSE, debug |-> FALSE]

\* ProjectBuilder.Controls()
DefaultControls ==
    [doConfiguration |-> TRUE, doBuild |-> TRUE, doCleanup |-> FALSE,
     createSetting |-> FALSE, isDebug |-> FALSE]

\* BuildSetting.Values()
DefaultValues == [buildDirectory |-> <<>>, projectHome |-> <<>>]

NoCmake == [projectHome |-> <<>>, buildDirectory |-> <<>>]

NoException == <<>>

\* Debug.Print: the lines printed for n messages when debugging is enabled
DebugLines(enabled, tags) ==
    IF enabled THEN [i \in 1..Len(tags) |-> <<"[DEBUG]", tags[i]>>] ELSE <<>>

PrintArgument(enabled) ==
    DebugLines(enabled, <<"target", "options", "configure", "build", "verbose",
                          "type", "clean", "cmake-args", "create-settings", "debug">>)

\* BuildSetting.__TEMPLATE, as json.dump writes it
TEMPLATE ==
    [kind |-> "json",
     obj |-> {<<PROJECT_HOME, <<".">>>>, <<BUILD_DIR, <<"build">>>>}]

\* Create with the check of line 98 left out: the template is always written.
CreateOverwriting(f) == TEMPLATE

\* BuildSetting.Create: the settings file after the call
Create(f) == IF f.kind # "absent" THEN f ELSE TEMPLATE

\* BuildSetting.Load: the values and the exception after the call
Load(f, v) ==
    IF f.kind = "absent"
    THEN [values |-> v, exc |-> <<"RuntimeError", FILE_NAME, "does not exist.">>]
    ELSE IF f.kind = "invalid"
    THEN [values |-> v, exc |-> <<"JSONDecodeError">>]
    ELSE IF ~HasKey(f.obj, PROJECT_HOME)
    THEN [values |-> v, exc |-> <<"KeyError", PROJECT_HOME>>]
    ELSE LET v1 == [v EXCEPT !.projectHome = Get(f.obj, PROJECT_HOME)] IN
         IF ~HasKey(f.obj, BUILD_DIR)
         THEN [values |-> v1, exc |-> <<"KeyError", BUILD_DIR>>]
         ELSE [values |-> [v1 EXCEPT !.buildDirectory = Get(f.obj, BUILD_DIR)],
               exc |-> NoException]

\* Cmake.__init__(projectHome, buildDirectory) in working directory d
CmakeInit(d, projectHome, buildDirectory) ==
    IF ~Exists(d, projectHome)
    THEN [cmake |-> NoCmake,
          exc |-> <<"FileNotFoundError", "ProjectHome does not exist.", projectHome>>]
    ELSE IF ~Exists(d, Dirname(buildDirectory))
    THEN [cmake |-> NoCmake,
          exc |-> <<"FileNotFoundError", "BuildDirectory does not exist.",
                    buildDirectory>>]
    ELSE [cmake |-> [projectHome |-> projectHome, buildDirectory |-> buildDirectory],
          exc |-> NoException]

\* Cmake.__Enter in working directory d
Enter(d) == Chdir(d, cmake.projectHome)

\* Cmake.__Exit in working directory d: os.chdir(os.getenv("OLDPWD"))
Exit(d) ==
    IF oldpwd = {}
    THEN [cwd |-> d, exc |-> <<"TypeError">>]
    ELSE Chdir(d, CHOOSE p \in oldpwd : TRUE)

\* SubProcessWrapper.RunSimply: the exit code of the tool, raised or not
RunSimply(rc) == rc

ConfigureCommand == <<CMAKE, "-S", cmake.projectHome, "-B", cmake.buildDirectory>>

\* str.split(","), on a string given as the sequence of its characters
RECURSIVE Split(_)
Split(s) ==
    IF \A i \in 1..Len(s) : s[i] # ","
    THEN <<s>>
    ELSE LET i == CHOOSE k \in 1..Len(s) :
                      s[k] = "," /\ \A j \in 1..(k - 1) : s[j] # ","
         IN <<SubSeq(s, 1, i - 1)>> \o Split(SubSeq(s, i + 1, Len(s)))

BuildCommand(target, buildType, enableVerbose, cmakeArgs) ==
    <<CMAKE, "--build", cmake.buildDirectory, "--target", target>>
    \o (IF buildType # "" THEN <<"--config", buildType>> ELSE <<>>)
    \o (IF enableVerbose THEN <<"-v">> ELSE <<>>)
    \o (IF cmakeArgs # <<>> /\ cmakeArgs # <<<<>>>> THEN cmakeArgs ELSE <<>>)

\* Cmake.Configure in working directory d, the tool exiting with rc
Configure(d, rc) ==
    LET in == Enter(d) IN
    IF in.exc # NoException
    THEN [cwd |-> in.cwd, exc |-> in.exc, ret |-> FALSE, ran |-> <<>>]
    ELSE LET run == <<[cmd |-> ConfigureCommand, rc |-> rc, cwd |-> in.cwd]>> IN
         IF RunSimply(rc) = 0
         THEN [cwd |-> in.cwd, exc |-> NoException, ret |-> TRUE, ran |-> run]
         ELSE LET out == Exit(in.cwd) IN
              [cwd |-> out.cwd, exc |-> out.exc, ret |-> FALSE, ran |-> run]

\* Cmake.Build in working directory d, the tool exiting with rc
Build(d, rc, target, buildType, enableVerbose, cmakeArgs) ==
    LET in == Enter(d) IN
    IF in.exc # NoException
    THEN [cwd |-> in.cwd, exc |-> in.exc, ret |-> FALSE, ran |-> <<>>]
    ELSE LET run == <<[cmd |-> BuildCommand(target, buildType, enableVerbose, cmakeArgs),
                       rc |-> rc, cwd |-> in.cwd]>>
             out == Exit(in.cwd)
         IN [cwd |-> out.cwd, exc |-> out.exc, ret |-> RunSimply(rc) = 0, ran |-> run]

\* shutil.rmtree(p) in working directory d
Rmtree(d, p) ==
    IF ~IsDir(d, p)
    THEN [dirs |-> dirs, files |-> files,
          exc |-> IF Exists(d, p) THEN <<"NotADirectoryError", p>>
                                  ELSE <<"FileNotFoundError", p>>]
    ELSE [dirs |-> {q \in dirs : ~IsPrefix(Resolve(d, p), q)},
          files |-> {q \in files : ~IsPrefix(Resolve(d, p), q)},
          exc |-> NoException]

\* os.mkdir(p) in working directory d, the directories being ds
Mkdir(d, p, ds) == ds \cup {Resolve(d, p)}

\* Cleanup with the os.mkdir of line 222 left out.
CleanupWithoutMkdir(d) == Rmtree(d, cmake.buildDirectory)

\* Cmake.Cleanup in working directory d
Cleanup(d) ==
    LET rm == Rmtree(d, cmake.buildDirectory) IN
    IF rm.exc # NoException
    THEN rm
    ELSE [dirs |-> Mkdir(d, cmake.buildDirectory, rm.dirs), files |-> rm.files,
          exc |-> NoException]

\* __verifyControls with the defaulting left out.
VerifyControlsNoDefault(c) == c

\* __verifyControls with the test left out: both steps are always run.
VerifyControlsAlwaysBoth(c) == [c EXCEPT !.doConfiguration = TRUE, !.doBuild = TRUE]

\* ProjectBuilder.__verifyControls
VerifyControls(c) ==
    IF ~c.doConfiguration /\ ~c.doBuild
    THEN [c EXCEPT !.doConfiguration = TRUE, !.doBuild = TRUE]
    ELSE c

\* ProjectBuilder.Run, its first branch: create the settings or load them
FirstBranch(c) == IF c.createSetting THEN "create" ELSE "load"

\* The second branch with -c taking precedence over --clean.
SecondBranchConfigureFirst(c) ==
    IF c.doCleanup /\ ~c.doConfiguration THEN "cleanup" ELSE "lifecycle"

\* ProjectBuilder.Run, its second branch: clean up or configure and build
SecondBranch(c) == IF c.doCleanup THEN "cleanup" ELSE "lifecycle"

\* Run with the return of line 292 left out.
AfterConfigureNoReturn(ok) == "configured"

\* ProjectBuilder.Run: where it goes after cmake.Configure() returned ok
AfterConfigure(ok) == IF ~ok THEN "returned" ELSE "configured"

CreatedResponse == <<"Successfully created", FILE_NAME>>

CleanedResponse == <<"Cleaned up project repository.">>

NoResponse == <<>>

\* where a call that may have raised goes on
Raised(e, next) == IF e # NoException THEN "raised" ELSE next

\* ------------------------------------------------------------ the actions

\* The process as ProjectBuilder() leaves it, in an environment.
Fresh ==
    /\ pc = "start"
    /\ args = DefaultArguments
    /\ controls = DefaultControls
    /\ response = NoResponse
    /\ values = DefaultValues
    /\ cmake = NoCmake
    /\ exc = NoException
    /\ stdout = <<>>
    /\ invocations = <<>>
    /\ called = <<>>

Init ==
    /\ Fresh
    /\ cwd \in StartDirs
    /\ oldpwd \in OldPwds
    /\ settingsFile \in SettingsFiles
    /\ \E built \in SUBSET BuildDirs, n \in 0..MaxFiles :
          /\ built = {} => n = 0
          /\ dirs = BaseDirs \cup built \cup UNION {SubDirsIn(b, n) : b \in built}
          /\ files = UNION {FilesIn(b, n) : b \in built}

\* ProjectBuilder.Setup, with the command line parsed to a
Setup ==
    /\ pc = "start"
    /\ \E a \in Arguments :
          /\ args' = a
          /\ controls' = VerifyControls(
                 [doConfiguration |-> a.configure, doBuild |-> a.build,
                  doCleanup |-> a.clean, createSetting |-> a.create_settings,
                  isDebug |-> a.debug])
          /\ stdout' = stdout \o PrintArgument(a.debug)
    /\ called' = Append(called, "Setup")
    /\ pc' = "setup"
    /\ UNCHANGED <<response, values, cmake, exc, cwd, oldpwd, settingsFile,
                   dirs, files, invocations>>

\* ProjectBuilder.Run, lines 274-277
RunCreate ==
    /\ pc = "setup"
    /\ FirstBranch(controls) = "create"
    /\ settingsFile' = Create(settingsFile)
    /\ response' = CreatedResponse
    /\ called' = Append(called, "Create")
    /\ pc' = "returned"
    /\ UNCHANGED <<args, controls, values, cmake, exc, cwd, oldpwd, dirs, files,
                   stdout, invocations>>

\* ProjectBuilder.Run, line 278
RunLoad ==
    /\ pc = "setup"
    /\ FirstBranch(controls) = "load"
    /\ LET r == Load(settingsFile, values) IN
          /\ values' = r.values
          /\ exc' = r.exc
          /\ pc' = Raised(r.exc, "loaded")
    /\ called' = Append(called, "Load")
    /\ UNCHANGED <<args, controls, response, cmake, cwd, oldpwd, settingsFile,
                   dirs, files, stdout, invocations>>

\* ProjectBuilder.Run, lines 279-285
RunCmake ==
    /\ pc = "loaded"
    /\ LET r == CmakeInit(cwd, values.projectHome,
                          Join(values.projectHome, values.buildDirectory)) IN
          /\ cmake' = r.cmake
          /\ exc' = r.exc
          /\ pc' = Raised(r.exc, "cmake")
    /\ called' = Append(called, "Cmake")
    /\ UNCHANGED <<args, controls, response, values, cwd, oldpwd, settingsFile,
                   dirs, files, stdout, invocations>>

\* ProjectBuilder.Run, lines 286-289
RunCleanup ==
    /\ pc = "cmake"
    /\ SecondBranch(controls) = "cleanup"
    /\ LET r == Cleanup(cwd) IN
          /\ dirs' = r.dirs
          /\ files' = r.files
          /\ exc' = r.exc
          /\ response' = IF r.exc = NoException THEN CleanedResponse ELSE response
          /\ pc' = Raised(r.exc, "returned")
    /\ called' = Append(called, "Cleanup")
    /\ UNCHANGED <<args, controls, values, cmake, cwd, oldpwd, settingsFile,
                   stdout, invocations>>

\* ProjectBuilder.Run, lines 290-292
RunConfigure ==
    /\ pc = "cmake"
    /\ SecondBranch(controls) = "lifecycle"
    /\ IF controls.doConfiguration
       THEN \E rc \in ExitCodes :
               LET r == Configure(cwd, rc) IN
                 /\ cwd' = r.cwd
                 /\ exc' = r.exc
                 /\ invocations' = invocations \o r.ran
                 /\ pc' = Raised(r.exc, AfterConfigure(r.ret))
                 /\ called' = Append(called, "Configure")
                 /\ stdout' = stdout \o DebugLines(controls.isDebug, <<"command">>)
       ELSE /\ pc' = "configured"
            /\ UNCHANGED <<cwd, exc, invocations, called, stdout>>
    /\ UNCHANGED <<args, controls, response, values, cmake, oldpwd, settingsFile,
                   dirs, files>>

\* ProjectBuilder.Run, lines 293-300
RunBuild ==
    /\ pc = "configured"
    /\ IF controls.doBuild
       THEN \E rc \in ExitCodes :
               LET r == Build(cwd, rc, args.target, args.type, args.verbose,
                              Split(args.cmake_args)) IN
                 /\ cwd' = r.cwd
                 /\ exc' = r.exc
                 /\ invocations' = invocations \o r.ran
                 /\ pc' = Raised(r.exc, "returned")
                 /\ called' = Append(called, "Build")
                 /\ stdout' = stdout \o DebugLines(controls.isDebug, <<"command">>)
       ELSE /\ pc' = "returned"
            /\ UNCHANGED <<cwd, exc, invocations, called, stdout>>
    /\ UNCHANGED <<args, controls, response, values, cmake, oldpwd, settingsFile,
                   dirs, files>>

\* main, lines 364-365
MainPrint ==
    /\ pc = "returned"
    /\ stdout' = IF response # NoResponse
                 THEN Append(stdout, <<"status", response>>)
                 ELSE stdout
    /\ pc' = "done"
    /\ UNCHANGED <<args, controls, response, values, cmake, exc, cwd, oldpwd,
                   settingsFile, dirs, files, invocations, called>>

\* main, lines 366-367
MainExcept ==
    /\ pc = "raised"
    /\ stdout' = Append(stdout, <<"error", MY_NAME, exc>>)
    /\ pc' = "done"
    /\ UNCHANGED <<args, controls, response, values, cmake, exc, cwd, oldpwd,
                   settingsFile, dirs, files, invocations, called>>

\* The program is started again: a new process, in some working directory,
\* over the settings file and the file system the last run left.
Restart ==
    /\ pc = "done"
    /\ pc' = "start"
    /\ args' = DefaultArguments
    /\ controls' = DefaultControls
    /\ response' = NoResponse
    /\ values' = DefaultValues
    /\ cmake' = NoCmake
    /\ exc' = NoException
    /\ stdout' = <<>>
    /\ invocations' = <<>>
    /\ called' = <<>>
    /\ cwd' \in StartDirs
    /\ oldpwd' \in OldPwds
    /\ UNCHANGED <<settingsFile, dirs, files>>

Next ==
    \/ Setup
    \/ RunCreate
    \/ RunLoad
    \/ RunCmake
    \/ RunCleanup
    \/ RunConfigure
    \/ RunBuild
    \/ MainPrint
    \/ MainExcept
    \/ Restart

Spec == Init /\ [][Next]_vars

\* ------------------------------------------------------------- the claims

WasCalled(m) == \E i \in 1..Len(called) : called[i] = m

TimesCalled(m) == Cardinality({i \in 1..Len(called) : called[i] = m})

LastCalled == IF called = <<>> THEN "" ELSE called[Len(called)]

IsConfigureRun(r) == r.cmd[2] = "-S"

IsBuildRun(r) == r.cmd[2] = "--build"

ConfigureFailed ==
    \E i \in 1..Len(invocations) :
        IsConfigureRun(invocations[i]) /\ invocations[i].rc # 0

ConfigureSucceeded ==
    \E i \in 1..Len(invocations) :
        IsConfigureRun(invocations[i]) /\ invocations[i].rc = 0

ToolFailed == \E i \in 1..Len(invocations) : invocations[i].rc # 0

StatusLines == {i \in 1..Len(stdout) : stdout[i][1] = "status"}

ErrorLines == {i \in 1..Len(stdout) : stdout[i][1] = "error"}

\* The step is a call of Cmake.Configure or Cmake.Build.
ToolCallStep ==
    /\ called' = Append(called, "Configure") \/ called' = Append(called, "Build")

\* The settings were loaded and the Cmake object constructed.
SettingsValid == cmake # NoCmake

\* Run is over: it returned or raised.
RunOver == pc \in {"returned", "raised", "done"}

\* Neither --clean nor --create-settings is set.
Lifecycle == pc # "start" /\ ~args.clean /\ ~args.create_settings

\* Configure is called, then Build if the tool configured: what Run does
\* once it is over, both steps being requested.
ConfigureThenBuild ==
    /\ \A i \in 1..Len(called) :
          called[i] = "Build" => \E j \in 1..(i - 1) : called[j] = "Configure"
    /\ pc \in {"configured", "returned", "raised", "done"} => WasCalled("Configure")
    /\ RunOver /\ ConfigureSucceeded => WasCalled("Build")
    /\ RunOver /\ ~ConfigureSucceeded => ~WasCalled("Build")

\* C1: every call of Configure or Build that returns leaves the working
\* directory as it was before the call, whatever the tool's exit code.
C1_WorkingDirectoryRestored ==
    [][ToolCallStep /\ pc' # "raised" => cwd' = cwd]_vars

\* C2: in a run where Configure was invoked and the tool failed, Build is
\* never invoked and no build command is passed to the tool.
C2_NoBuildAfterFailedConfigure ==
    ConfigureFailed =>
        /\ ~WasCalled("Build")
        /\ \A i \in 1..Len(invocations) : ~IsBuildRun(invocations[i])

C2_Witness ==
    /\ pc = "done"
    /\ ConfigureFailed
    /\ controls.doBuild
    /\ exc = NoException

\* C3: with neither -c nor -b (nor --clean, nor --create-settings) and the
\* settings valid, Configure is attempted first, Build is attempted after it
\* when it succeeded, and Build is never attempted before Configure.
C3_DefaultRunsConfigureThenBuild ==
    Lifecycle /\ ~args.configure /\ ~args.build /\ SettingsValid => ConfigureThenBuild

C3_Witness ==
    /\ pc = "done"
    /\ Lifecycle /\ ~args.configure /\ ~args.build
    /\ called = <<"Setup", "Load", "Cmake", "Configure", "Build">>
    /\ Len(invocations) = 2

\* C4: Create leaves an existing settings file, whatever its content, as it
\* is, and writes the template when there is none, so that a second Create
\* changes nothing; and a --create-settings run prints the same
\* confirmation whether the file was created or was there.
C4_CreateIdempotent ==
    [][/\ called' = Append(called, "Create") =>
            /\ settingsFile'.kind # "absent"
            /\ settingsFile.kind # "absent" => settingsFile' = settingsFile
            /\ settingsFile.kind = "absent" => settingsFile' = TEMPLATE
       /\ LastCalled = "Create" /\ pc = "returned" =>
            stdout' = Append(stdout, <<"status", CreatedResponse>>)]_vars

C4_Witness ==
    /\ pc = "done"
    /\ LastCalled = "Create"
    /\ settingsFile.kind = "invalid"
    /\ stdout[Len(stdout)] = <<"status", CreatedResponse>>

\* C5: when the settings file is absent or lacks a required key, a failed
\* Load has assigned neither values.projectHome nor values.buildDirectory.
C5_NoPartialSettings ==
    /\ LastCalled = "Load"
    /\ \/ settingsFile.kind = "absent"
       \/ /\ settingsFile.kind = "json"
          /\ ~HasKey(settingsFile.obj, PROJECT_HOME) \/ ~HasKey(settingsFile.obj, BUILD_DIR)
    => /\ pc \in {"raised", "done"}
       /\ exc # NoException
       /\ values = DefaultValues

\* C6, as claimed: with --create-settings only Create runs; with --clean and
\* without --create-settings Cleanup runs and neither Configure nor Build.
C6_FlagPrecedence ==
    pc = "done" =>
        /\ args.create_settings =>
              called = <<"Setup", "Create">> /\ invocations = <<>>
        /\ args.clean /\ ~args.create_settings =>
              /\ WasCalled("Cleanup")
              /\ ~WasCalled("Configure") /\ ~WasCalled("Build")
              /\ invocations = <<>>

\* C6, as amended: with --create-settings only Create runs; with --clean
\* and without --create-settings neither Configure nor Build is invoked,
\* and Cleanup runs provided the settings load and the validation succeed.
C6_FlagPrecedenceWhenSettingsValid ==
    pc # "start" =>
        /\ args.create_settings =>
              /\ \A i \in 1..Len(called) : called[i] \in {"Setup", "Create"}
              /\ RunOver => called = <<"Setup", "Create">>
              /\ invocations = <<>>
        /\ args.clean /\ ~args.create_settings =>
              /\ RunOver /\ SettingsValid => WasCalled("Cleanup")
              /\ ~WasCalled("Configure") /\ ~WasCalled("Build")
              /\ invocations = <<>>

C6_Witness ==
    /\ pc = "done"
    /\ args.clean /\ ~args.create_settings /\ args.configure /\ args.build
    /\ called = <<"Setup", "Load", "Cmake", "Cleanup">>
    /\ exc = NoException

\* C7: every run that completes successfully prints exactly one status line;
\* a run with no flags in which the tool succeeds for both steps invokes the
\* tool twice, configure then build of "all", and ends with a status line.
C7_OneStatusLine ==
    pc = "done" /\ exc = NoException /\ ~ToolFailed =>
        /\ Cardinality(StatusLines) = 1
        /\ /\ Lifecycle /\ ~args.configure /\ ~args.build
           /\ Len(invocations) = 2
           => /\ IsConfigureRun(invocations[1])
              /\ IsBuildRun(invocations[2])
              /\ invocations[2].cmd[5] = "all"
              /\ stdout # <<>>
              /\ stdout[Len(stdout)][1] = "status"

\* C8: every failing run, an exception of the taxonomy or a non-zero exit
\* code of the tool, ends with exactly one line "<program name>: <message>".
C8_FailurePrinted ==
    pc = "done" /\ (exc # NoException \/ ToolFailed) =>
        /\ Cardinality(ErrorLines) = 1
        /\ stdout[Len(stdout)][1] = "error"
        /\ stdout[Len(stdout)][2] = MY_NAME

\* C9: Cleanup of an existing build directory, whatever it holds, leaves a
\* directory at the same path, empty, changes nothing outside it, does not
\* change the working directory and invokes no tool.
C9_CleanupEmptiesBuildDirectory ==
    [][called' = Append(called, "Cleanup") /\ IsDir(cwd, cmake.buildDirectory) =>
         LET b == Resolve(cwd, cmake.buildDirectory) IN
           /\ b \in dirs'
           /\ \A q \in dirs' \cup files' : IsPrefix(b, q) => q = b
           /\ b \notin files'
           /\ {q \in dirs' : ~IsPrefix(b, q)} = {q \in dirs : ~IsPrefix(b, q)}
           /\ {q \in files' : ~IsPrefix(b, q)} = {q \in files : ~IsPrefix(b, q)}
           /\ cwd' = cwd
           /\ invocations' = invocations
           /\ settingsFile' = settingsFile
           /\ pc' = "returned"]_vars

\* Run has cleaned one build directory, which is there and empty, and the
\* other build directory still holds the files both had.
C9_Witness ==
    /\ pc = "returned"
    /\ LastCalled = "Cleanup"
    /\ Resolve(cwd, cmake.buildDirectory) \in dirs
    /\ \A q \in dirs \cup files :
          IsPrefix(Resolve(cwd, cmake.buildDirectory), q)
              => q = Resolve(cwd, cmake.buildDirectory)
    /\ \E b \in BuildDirs : \E q \in files : IsPrefix(b, q)

\* C10: -c alone runs Configure and never Build, -b alone runs Build and
\* never Configure, both together run as neither does; the tool is invoked
\* at most twice and Configure at most once.
C10_FlagsSelectSteps ==
    /\ Len(invocations) <= 2
    /\ TimesCalled("Configure") <= 1
    /\ Cardinality({i \in 1..Len(invocations) : IsConfigureRun(invocations[i])}) <= 1
    /\ Lifecycle /\ SettingsValid =>
          /\ args.configure /\ ~args.build =>
                /\ ~WasCalled("Build")
                /\ pc \in {"configured", "returned", "raised", "done"}
                      => WasCalled("Configure")
          /\ args.build /\ ~args.configure =>
                /\ ~WasCalled("Configure")
                /\ RunOver => WasCalled("Build")
          /\ args.configure = args.build =>
                /\ controls.doConfiguration /\ controls.doBuild
                /\ ConfigureThenBuild

C10_Witness ==
    /\ pc = "done"
    /\ Lifecycle /\ args.build /\ ~args.configure
    /\ called = <<"Setup", "Load", "Cmake", "Build">>
    /\ Len(invocations) = 1

====
